---- MODULE Spec2Model ----
(***************************************************************************)
(* State-machine model of pygod.models.mlpae.MLPAE                          *)
(* (src/pygod/models/mlpae.py): the constructor, fit, decision_function    *)
(* and process_graph, together with the parts of torch / torch_geometric / *)
(* sklearn the class calls into.                                            *)
(*                                                                         *)
(* The numerical library is modelled by a small exact integer network: the *)
(* whole parameter vector of the MLP is one integer gain w, the forward    *)
(* pass maps x to (w - m) * x where m is the dropout draw of that pass,    *)
(* the optimizer is sign descent on the accumulated gradient.  Means are   *)
(* kept as exact fractions <<numerator, denominator>>.  What is kept       *)
(* faithfully is the data flow of mlpae.py: which parameter state, which   *)
(* mode, which random draws and which device every value is computed from. *)
(***************************************************************************)
EXTENDS Integers, Sequences, FiniteSets, TLC

\* ------------------------------------------------------------------ bounds
MaxNodes == 2
MaxHid == 1
MaxLayers == 2
MaxEpoch == 2
MaxGpu == 0

\* Values the remaining inputs are drawn from: two feature widths (so that a
\* graph can differ in width from the one fitted), seeds of the generator,
\* dropout off or on, the default weight decay and one learning-rate unit,
\* an activation or none.
FeatureDims == {1, 2}
Seeds == {0, 1}
DropoutRates == {0, 1}
WeightDecays == {0}
LearningRates == {1}
Activations == {"relu", "None"}

\* -------------------------------------------------------------------- state
VARIABLES
    hp,                \* hyperparameters stored by __init__
    device,            \* self.device
    model,             \* self.model
    decision_scores_,  \* self.decision_scores_
    processed,         \* _process_decision_scores has run on decision_scores_
    rng,               \* state of the library's random generator
    pc,                \* position inside fit, "idle" between calls
    fr,                \* local variables of the running fit; m and w_fwd are the
                       \* dropout draw and the parameters of its last forward pass
    stdout,            \* lines printed by the most recent fit
    ret,               \* the most recent call and its outcome
    hist,              \* generator state and input tensor of the last fit that returned
    fit_called         \* fit has been called on this detector

vars == <<hp, device, model, decision_scores_, processed,
          rng, pc, fr, stdout, ret, hist, fit_called>>

\* The generator of the numerical library: a linear congruential generator.
RngMod == 2
RngMul == 1
RngInc == 1
ParamMul == 2
ParamMod == 4

NextRng(r) == (r * RngMul + RngInc) % RngMod

\* ------------------------------------------------------------------ values
None == [none |-> TRUE]

NoGraph == [x |-> <<>>, y |-> <<>>, has_y |-> FALSE]

\* A graph of n nodes and d features per node: x[i][j] = i + j - 1; when it is
\* labelled, y[i] = i % 2 (a single class for one node, both classes for more),
\* otherwise G.y is None.
MkGraph(n, d, labelled) ==
    [x |-> [i \in 1..n |-> [j \in 1..d |-> i + j - 1]],
     y |-> IF labelled THEN [i \in 1..n |-> i % 2] ELSE <<>>,
     has_y |-> labelled]

Graphs ==
    {MkGraph(n, d, labelled) : n \in 1..MaxNodes, d \in FeatureDims, labelled \in BOOLEAN}

NumNodes(G) == Len(G.x)
NumFeatures(x) == Len(x[1])

\* --------------------------------------------------------------- arithmetic
RECURSIVE SumSeq(_)
SumSeq(s) == IF s = <<>> THEN 0 ELSE Head(s) + SumSeq(Tail(s))

Sign(g) == IF g > 0 THEN 1 ELSE IF g < 0 THEN -1 ELSE 0

\* a / b < c / d for fractions with positive denominators
FracLess(a, b) == a[1] * b[2] < b[1] * a[2]

SqErrRow(out, x, n) == [j \in 1..Len(x[n]) |-> (out[n][j] - x[n][j]) * (out[n][j] - x[n][j])]

\* torch.mean(F.mse_loss(x_, x, reduction='none'), dim=1)
NodeScores(out, x) == [n \in 1..Len(x) |-> <<SumSeq(SqErrRow(out, x, n)), Len(x[n])>>]

\* F.mse_loss(x_, x): mean over every element
MseLoss(out, x) ==
    <<SumSeq([n \in 1..Len(x) |-> SumSeq(SqErrRow(out, x, n))]), Len(x) * NumFeatures(x)>>

SumSq(x) == SumSeq([n \in 1..Len(x) |-> SumSeq([j \in 1..Len(x[n]) |-> x[n][j] * x[n][j]])])

\* ------------------------------------------------------------- constructor
CudaName(gpu) == "cuda:" \o ToString(gpu)

DeviceNoCudaCheck(gpu, cuda) == IF gpu >= 0 THEN CudaName(gpu) ELSE "cpu"

\* lines 77-80
Device(gpu, cuda) == IF gpu >= 0 /\ cuda THEN CudaName(gpu) ELSE "cpu"

ModelAfterInitBuilt ==
    [none |-> FALSE, channels |-> <<1, 1>>, dropout |-> 0, relu_first |-> TRUE,
     w |-> 0, grad |-> <<0, 1>>, training |-> TRUE, device |-> "cpu"]

\* line 84: self.model = None
ModelAfterInit == None

HyperParams ==
    [hid_dim : 1..MaxHid, num_layers : 0..MaxLayers, dropout : DropoutRates,
     weight_decay : WeightDecays, act : Activations, lr : LearningRates,
     epoch : 0..MaxEpoch, verbose : BOOLEAN]

\* ------------------------------------------------------------ process_graph
ToDevice(data, dev) == [data |-> data, device |-> dev]

TensorTo(t, dev) == [t EXCEPT !.device = dev]

\* MLPAE.process_graph(G): reads self.device, assigns nothing; fit and
\* decision_function call it.
ProcessGraphResult(G, dev) == [x |-> ToDevice(G.x, dev), y |-> G.y, has_y |-> G.has_y]

\* ------------------------------------------------------------------ network
ChannelListOneMore(in_dim, hid_dim, num_layers) ==
    <<in_dim>> \o [i \in 1..num_layers |-> hid_dim] \o <<in_dim>>

\* channel_list of fit: [x.shape[1]] + (num_layers - 1) * [hid_dim] + [x.shape[1]]
ChannelList(in_dim, hid_dim, num_layers) ==
    <<in_dim>> \o [i \in 1..(num_layers - 1) |-> hid_dim] \o <<in_dim>>

InitParamsWarm(r) == IF model.none THEN (r * ParamMul) % ParamMod ELSE model.w

\* Parameter initialisation of the linear layers, drawn from the generator.
InitParams(r) == (r * ParamMul) % ParamMod

\* torch_geometric.nn.MLP(channel_list, dropout, relu_first, batch_norm=False):
\* a fresh module, in training mode, its parameters on the CPU.
NewMLP(channels, dropout, relu_first, r) ==
    [none |-> FALSE, channels |-> channels, dropout |-> dropout,
     relu_first |-> relu_first, w |-> InitParams(r), grad |-> <<0, 1>>,
     training |-> TRUE, device |-> "cpu"]

TrainMode(net) == [net EXCEPT !.training = TRUE]

EvalModeSkipped(net) == net

EvalMode(net) == [net EXCEPT !.training = FALSE]

\* Dropout acts between the linear layers, in training mode only.
DropoutActive(net) == net.training /\ net.dropout > 0 /\ Len(net.channels) > 2

DropDraw(net, r) == IF DropoutActive(net) THEN r % 2 ELSE 0

RngAfterForward(net, r) == IF DropoutActive(net) THEN NextRng(r) ELSE r

\* self.model(x): the library refuses operands on different devices and an
\* input whose width is not the first channel.
ForwardError(net, x) ==
    IF net.device # x.device THEN "RuntimeError: device mismatch"
    ELSE IF NumFeatures(x.data) # net.channels[1] THEN "RuntimeError: shape mismatch"
    ELSE ""

ForwardOut(net, data, m) ==
    [n \in 1..Len(data) |-> [j \in 1..Len(data[n]) |-> (net.w - m) * data[n][j]]]

\* d loss / d w of the recorded forward pass, as an exact fraction.
LossGrad(w, m, data) == <<2 * (w - m - 1) * SumSq(data), Len(data) * NumFeatures(data)>>

FracAdd(a, b) == <<a[1] * b[2] + b[1] * a[2], a[2] * b[2]>>

\* torch.optim.Adam(params, lr, weight_decay)
NewAdam(lr, weight_decay) == [lr |-> lr, weight_decay |-> weight_decay, steps |-> 0]

AdamStep(net, opt) ==
    [net EXCEPT !.w = net.w - opt.lr * Sign(FracAdd(net.grad, <<opt.weight_decay * net.w, 1>>)[1])]

\* ----------------------------------------------------------------- sklearn
\* check_is_fitted(self, attributes): passes when every attribute exists.
Attributes(scores) ==
    {"model", "device", "verbose"} \cup (IF scores.set THEN {"decision_scores_"} ELSE {})

CheckIsFitted(attrs, scores) == attrs \subseteq Attributes(scores)

\* roc_auc_score(labels, score) raises unless both classes are present.
RocAucError(y, has_y) ==
    IF ~has_y THEN "ValueError"
    ELSE IF {y[i] : i \in 1..Len(y)} # {0, 1} THEN "ValueError"
    ELSE ""

RocAuc(y, score) ==
    LET pos == {i \in 1..Len(y) : y[i] = 1}
        neg == {i \in 1..Len(y) : y[i] = 0}
        wins == Cardinality({pq \in pos \X neg : FracLess(score[pq[2]], score[pq[1]])})
        ties == Cardinality({pq \in pos \X neg : score[pq[1]] = score[pq[2]]})
    IN  <<2 * wins + ties, 2 * Cardinality(pos) * Cardinality(neg)>>

\* ------------------------------------------------------------ state values
NoTensor == [data |-> <<>>, device |-> ""]

Unbound == [bound |-> FALSE, val |-> <<>>]

NoLoss == [value |-> <<0, 1>>, gradfn |-> <<0, 1>>]

NoFrame ==
    [G |-> NoGraph, x |-> NoTensor, labels |-> <<>>, has_y |-> FALSE, rng0 |-> 0,
     opt |-> NewAdam(0, 0), epoch |-> 0, x_ |-> <<>>, m |-> 0, w_fwd |-> 0,
     loss |-> NoLoss, score |-> Unbound]

NoHist == [set |-> FALSE, rng0 |-> 0, x |-> <<>>]

NoValue == [scores |-> <<>>, self |-> FALSE, args |-> <<>>]

\* A call (its name and the feature matrix of its graph) and how it ended.
Result(op, x, status, error, value) ==
    [op |-> op, x |-> x, status |-> status, error |-> error, value |-> value]

Returned(op, x, value) == Result(op, x, "ok", "", value)

Raised(op, x, error) == Result(op, x, "error", error, NoValue)

\* MLPAE.__init__, called with gpu while torch.cuda.is_available() answers
\* cuda_available; ret remembers both until the next call.
Construct(h, gpu, cuda_available) ==
    /\ hp = h
    /\ device = Device(gpu, cuda_available)
    /\ ret = Returned("__init__", <<>>, [NoValue EXCEPT !.args = <<gpu, cuda_available>>])

Init ==
    /\ \E h \in HyperParams, gpu \in (-2)..MaxGpu, cuda_available \in BOOLEAN :
           Construct(h, gpu, cuda_available)
    /\ model = ModelAfterInit
    /\ decision_scores_ = [set |-> FALSE, val |-> <<>>]
    /\ processed = FALSE
    /\ rng = 0
    /\ pc = "idle"
    /\ fr = NoFrame
    /\ stdout = <<>>
    /\ hist = NoHist
    /\ fit_called = FALSE

Fixed == UNCHANGED <<hp, device>>

\* torch.manual_seed(s)
ManualSeed(s) ==
    /\ pc = "idle"
    /\ rng' = s % RngMod
    /\ ret' = Returned("manual_seed", <<>>, NoValue)
    /\ Fixed
    /\ UNCHANGED <<model, decision_scores_, processed, pc, fr, stdout, hist, fit_called>>

\* ---------------------------------------------------------------------- fit
\* An exception leaves fit: the frame is dropped, the caller sees the error.
FitRaise(error) ==
    /\ pc' = "idle"
    /\ fr' = NoFrame
    /\ ret' = Raised("fit", fr.G.x, error)

\* lines 102-124: process_graph, channel_list, a new MLP, a new optimizer
FitCall(G) ==
    /\ pc = "idle"
    /\ LET pg == ProcessGraphResult(G, device)
           channel_list == ChannelList(NumFeatures(pg.x.data), hp.hid_dim, hp.num_layers)
       IN  /\ model' = NewMLP(channel_list, hp.dropout, hp.act # "None", rng)
           /\ fr' = [NoFrame EXCEPT !.G = G, !.x = pg.x, !.labels = pg.y,
                                    !.has_y = pg.has_y, !.rng0 = rng,
                                    !.opt = NewAdam(hp.lr, hp.weight_decay)]
    /\ rng' = NextRng(rng)
    /\ pc' = "loop"
    /\ stdout' = <<>>
    /\ fit_called' = TRUE
    /\ ret' = Result("fit", G.x, "running", "", NoValue)
    /\ Fixed
    /\ UNCHANGED <<decision_scores_, processed, hist>>

\* line 126: for epoch in range(self.epoch)
FitLoop ==
    /\ pc = "loop"
    /\ pc' = IF fr.epoch < hp.epoch THEN "train" ELSE "finish"
    /\ Fixed
    /\ UNCHANGED <<model, decision_scores_, processed, rng, fr, stdout, ret, hist, fit_called>>

\* line 127: self.model.train()
FitTrain ==
    /\ pc = "train"
    /\ model' = TrainMode(model)
    /\ pc' = "forward"
    /\ Fixed
    /\ UNCHANGED <<decision_scores_, processed, rng, fr, stdout, ret, hist, fit_called>>

\* line 128: x_ = self.model(x)
FitForward ==
    /\ pc = "forward"
    /\ ForwardError(model, fr.x) = ""
    /\ LET m == DropDraw(model, rng)
       IN  fr' = [fr EXCEPT !.x_ = ForwardOut(model, fr.x.data, m), !.m = m,
                            !.w_fwd = model.w]
    /\ rng' = RngAfterForward(model, rng)
    /\ pc' = "loss"
    /\ Fixed
    /\ UNCHANGED <<model, decision_scores_, processed, stdout, ret, hist, fit_called>>

FitForwardRaise ==
    /\ pc = "forward"
    /\ ForwardError(model, fr.x) # ""
    /\ FitRaise(ForwardError(model, fr.x))
    /\ Fixed
    /\ UNCHANGED <<model, decision_scores_, processed, rng, stdout, hist, fit_called>>

\* line 129: loss = F.mse_loss(x_, x)
FitLoss ==
    /\ pc = "loss"
    /\ fr' = [fr EXCEPT !.loss = [value |-> MseLoss(fr.x_, fr.x.data),
                                  gradfn |-> LossGrad(model.w, fr.m, fr.x.data)]]
    /\ pc' = "zero_grad"
    /\ Fixed
    /\ UNCHANGED <<model, decision_scores_, processed, rng, stdout, ret, hist, fit_called>>

\* line 131: optimizer.zero_grad()
FitZeroGrad ==
    /\ pc = "zero_grad"
    /\ model' = [model EXCEPT !.grad = <<0, 1>>]
    /\ pc' = "backward"
    /\ Fixed
    /\ UNCHANGED <<decision_scores_, processed, rng, fr, stdout, ret, hist, fit_called>>

\* line 132: loss.backward()
FitBackward ==
    /\ pc = "backward"
    /\ model' = [model EXCEPT !.grad = FracAdd(model.grad, fr.loss.gradfn)]
    /\ pc' = "step"
    /\ Fixed
    /\ UNCHANGED <<decision_scores_, processed, rng, fr, stdout, ret, hist, fit_called>>

\* line 133: optimizer.step()
FitStep ==
    /\ pc = "step"
    /\ model' = AdamStep(model, fr.opt)
    /\ fr' = [fr EXCEPT !.opt.steps = fr.opt.steps + 1]
    /\ pc' = "score"
    /\ Fixed
    /\ UNCHANGED <<decision_scores_, processed, rng, stdout, ret, hist, fit_called>>

ScoreInputFresh(f, net) == ForwardOut(EvalMode(net), f.x.data, 0)

\* The forward output the per-node score of an epoch is computed from.
ScoreInput(f, net) == f.x_

\* lines 135-136: score = torch.mean(F.mse_loss(x_, x, reduction='none'), dim=1)
FitScore ==
    /\ pc = "score"
    /\ fr' = [fr EXCEPT !.score = [bound |-> TRUE,
                                   val |-> NodeScores(ScoreInput(fr, model), fr.x.data)]]
    /\ pc' = "verbose"
    /\ Fixed
    /\ UNCHANGED <<model, decision_scores_, processed, rng, stdout, ret, hist, fit_called>>

\* lines 137-141 with verbose off: next epoch
FitQuiet ==
    /\ pc = "verbose"
    /\ ~hp.verbose
    /\ fr' = [fr EXCEPT !.epoch = fr.epoch + 1]
    /\ pc' = "loop"
    /\ Fixed
    /\ UNCHANGED <<model, decision_scores_, processed, rng, stdout, ret, hist, fit_called>>

\* lines 137-141 with verbose on: auc = roc_auc_score(labels, score); print
FitVerbose ==
    /\ pc = "verbose"
    /\ hp.verbose
    /\ RocAucError(fr.labels, fr.has_y) = ""
    /\ stdout' = Append(stdout, [epoch |-> fr.epoch, loss |-> fr.loss.value,
                                 auc |-> RocAuc(fr.labels, fr.score.val)])
    /\ fr' = [fr EXCEPT !.epoch = fr.epoch + 1]
    /\ pc' = "loop"
    /\ Fixed
    /\ UNCHANGED <<model, decision_scores_, processed, rng, ret, hist, fit_called>>

FitVerboseRaise ==
    /\ pc = "verbose"
    /\ hp.verbose
    /\ RocAucError(fr.labels, fr.has_y) # ""
    /\ FitRaise(RocAucError(fr.labels, fr.has_y))
    /\ Fixed
    /\ UNCHANGED <<model, decision_scores_, processed, rng, stdout, hist, fit_called>>

\* lines 143-145: self.decision_scores_ = score; _process_decision_scores(); return self
FitReturn ==
    /\ pc = "finish"
    /\ fr.score.bound
    /\ decision_scores_' = [set |-> TRUE, val |-> fr.score.val]
    /\ processed' = TRUE
    /\ hist' = [set |-> TRUE, rng0 |-> fr.rng0, x |-> fr.G.x]
    /\ ret' = Returned("fit", fr.G.x, [NoValue EXCEPT !.self = TRUE])
    /\ pc' = "idle"
    /\ fr' = NoFrame
    /\ Fixed
    /\ UNCHANGED <<model, rng, stdout, fit_called>>

\* line 143 when the loop body never ran: score is not bound
FitUnbound ==
    /\ pc = "finish"
    /\ ~fr.score.bound
    /\ FitRaise("UnboundLocalError")
    /\ Fixed
    /\ UNCHANGED <<model, decision_scores_, processed, rng, stdout, hist, fit_called>>

\* -------------------------------------------------------- decision_function
\* line 165: self.model.eval(), on whatever self.model holds
EvalFails(net) == net.none

\* lines 164-173, as the state of self.model, the generator and the outcome
DecisionOutcome(G, net, r) ==
    IF ~CheckIsFitted({"model"}, decision_scores_)
    THEN [model |-> net, rng |-> r, ret |-> Raised("decision_function", G.x, "NotFittedError")]
    ELSE IF EvalFails(net)
    THEN [model |-> net, rng |-> r, ret |-> Raised("decision_function", G.x, "AttributeError")]
    ELSE LET ev == EvalMode(net)
             x == TensorTo(ProcessGraphResult(G, device).x, device)
             m == DropDraw(ev, r)
         IN  IF ForwardError(ev, x) # ""
             THEN [model |-> ev, rng |-> r,
                   ret |-> Raised("decision_function", G.x, ForwardError(ev, x))]
             ELSE [model |-> ev, rng |-> RngAfterForward(ev, r),
                   ret |-> Returned("decision_function", G.x,
                                    [NoValue EXCEPT !.scores =
                                        NodeScores(ForwardOut(ev, x.data, m), x.data)])]

DecisionFunction(G) ==
    /\ pc = "idle"
    /\ LET out == DecisionOutcome(G, model, rng)
       IN  /\ model' = out.model
           /\ rng' = out.rng
           /\ ret' = out.ret
    /\ Fixed
    /\ UNCHANGED <<decision_scores_, processed, pc, fr, stdout, hist, fit_called>>

\* --------------------------------------------------------------------- spec
Next ==
    \/ \E s \in Seeds : ManualSeed(s)
    \/ \E G \in Graphs : FitCall(G)
    \/ FitLoop
    \/ FitTrain
    \/ FitForward
    \/ FitForwardRaise
    \/ FitLoss
    \/ FitZeroGrad
    \/ FitBackward
    \/ FitStep
    \/ FitScore
    \/ FitQuiet
    \/ FitVerbose
    \/ FitVerboseRaise
    \/ FitReturn
    \/ FitUnbound
    \/ \E G \in Graphs : DecisionFunction(G)

Spec == Init /\ [][Next]_vars

\* ------------------------------------------------------------------- claims
FitReturned == pc = "idle" /\ ret.op = "fit" /\ ret.status = "ok"

Fitted == decision_scores_.set /\ ~model.none

\* What decision_function would return for the feature matrix x right now.
ScoresNow(x) == DecisionOutcome([NoGraph EXCEPT !.x = x], model, rng).ret.value.scores

\* C1: on a detector on which fit has never been called, decision_function
\* ends in an error and returns no scores, whatever the graph.
C1_UnfittedDecisionFunctionFails ==
    (ret.op = "decision_function" /\ ~fit_called)
        => (ret.status = "error" /\ ret.value.scores = <<>>)

C1_Witness ==
    ret.op = "decision_function" /\ ~fit_called /\ ret.error = "AttributeError"

\* C2: a fit that returns, having started from the same generator state and
\* with the same input tensor as the previous fit that returned on this
\* detector (same hyperparameters), leaves the same decision_scores_.
C2_FitDeterministic ==
    [][(pc = "finish" /\ ret'.op = "fit" /\ ret'.status = "ok"
        /\ hist.set /\ hist.rng0 = fr.rng0 /\ hist.x = fr.G.x)
       => decision_scores_' = decision_scores_]_vars

C2_Witness ==
    /\ pc = "finish" /\ fr.score.bound
    /\ hist.set /\ hist.rng0 = fr.rng0 /\ hist.x = fr.G.x
    /\ fr.opt.steps >= 1 /\ model.w # InitParams(fr.rng0)

\* C3 (as stated): after fit returns, decision_scores_ equals what
\* decision_function computes from the fitted model for the same graph.
C3_ScoresOfFinalModel ==
    FitReturned => decision_scores_.val = ScoresNow(ret.x)

\* C3 (amended): when fit returns, decision_scores_ has one value per node and
\* is the per-node reconstruction error of the last epoch's forward pass: in
\* training mode, with that pass's dropout draw, from the parameters as they
\* stood before the last optimizer step.
C3_ScoresOfLastForward ==
    [][(pc = "finish" /\ ret'.op = "fit" /\ ret'.status = "ok")
       => /\ decision_scores_'.set
          /\ Len(decision_scores_'.val) = NumNodes(fr.G)
          /\ decision_scores_'.val =
                NodeScores(ForwardOut([model EXCEPT !.w = fr.w_fwd], fr.x.data, fr.m),
                           fr.x.data)]_vars

C3_Witness ==
    FitReturned /\ decision_scores_.set /\ decision_scores_.val # ScoresNow(ret.x)

ChannelShape(c, in_dim, hid_dim) ==
    /\ c[1] = in_dim
    /\ c[Len(c)] = in_dim
    /\ \A i \in 2..(Len(c) - 1) : c[i] = hid_dim

C5_AlwaysScores ==
    (ret.op = "decision_function" /\ Fitted)
        => (ret.status = "ok" /\ Len(ret.value.scores) = Len(ret.x))

\* C5 (amended): on a fitted detector decision_function puts the network in
\* evaluation mode, takes no optimizer step and no random draw, and leaves the
\* parameters and decision_scores_ unchanged; when the graph has as many
\* features per node as the network's input width it returns one score per
\* node, and a call that directly follows a call with the same graph returns
\* the same scores; for any other graph the forward pass raises.
C5_DecisionFunctionFrame ==
    [][(pc = "idle" /\ pc' = "idle" /\ Fitted /\ ret'.op = "decision_function")
       => /\ model'.w = model.w /\ model'.grad = model.grad
          /\ model'.channels = model.channels
          /\ ~model'.training
          /\ rng' = rng
          /\ decision_scores_' = decision_scores_
          /\ (NumFeatures(ret'.x) = model.channels[1]
                => ret'.status = "ok" /\ Len(ret'.value.scores) = Len(ret'.x))
          /\ (NumFeatures(ret'.x) # model.channels[1] => ret'.status = "error")
          /\ ((ret.op = "decision_function" /\ ret.x = ret'.x) => ret' = ret)]_vars

C5_Witness ==
    /\ ret.op = "decision_function" /\ Fitted /\ ret.status = "ok"
    /\ hp.dropout > 0 /\ Len(model.channels) > 2 /\ Len(ret.value.scores) = MaxNodes

\* C6: the constructor selects 'cpu' when gpu is negative or CUDA is
\* unavailable and 'cuda:<gpu>' exactly when gpu >= 0 and CUDA is available,
\* and no later call changes the device.
C6_DeviceSelection ==
    /\ [](ret.op = "__init__" =>
            LET gpu == ret.value.args[1]
                cuda == ret.value.args[2]
            IN  /\ (device = "cpu") <=> (gpu < 0 \/ ~cuda)
                /\ (gpu >= 0 /\ cuda) => device = CudaName(gpu))
    /\ [][device' = device]_vars

C6_Witness ==
    ret.op = "decision_function" /\ fit_called /\ device = CudaName(0)

\* C7: with the device and the verbosity that involve no label and no GPU,
\* fit ends normally for every epoch count >= 0, after exactly epoch optimizer
\* steps, with decision_scores_ set, returning the detector.
C7_FitTerminatesNormally ==
    (pc = "idle" /\ ret.op = "fit" /\ device = "cpu" /\ ~hp.verbose)
        => (ret.status = "ok" /\ ret.value.self /\ decision_scores_.set)

\* C8: on the CPU with at least one epoch, where fit with verbose off always
\* returns, fit returns whatever verbose and the node labels are.
C8_VerboseOnlyLogs ==
    (pc = "idle" /\ ret.op = "fit" /\ device = "cpu" /\ hp.epoch >= 1)
        => ret.status = "ok"

\* C9: at every forward pass of fit the parameters of the network and the
\* input tensor are on the same device.
C9_SameDevice ==
    pc = "forward" => model.device = fr.x.device

====
